---- MODULE Spec2Model ----
(***************************************************************************)
(* Model of _CacheingDefinitionIndex                                       *)
(* (dagster/_core/definitions/repository_definition/caching_index.py).     *)
(*                                                                         *)
(* One index instance.  The constructor arguments (the eager map           *)
(* `definitions`, the validation function and the lazy-definitions         *)
(* function) are chosen in Init and never change; the four memoised        *)
(* fields are the mutable state.  Every public method is one action that   *)
(* runs the whole call, nested calls included.  A Python exception ends    *)
(* the call where it is raised and keeps every assignment made before it.  *)
(***************************************************************************)
EXTENDS Naturals, Sequences, FiniteSets, TLC

\* ------------------------------------------------------------------ bounds
\* Longest sequence the lazy-definitions function returns.
MaxLazy == 2
\* Most invocations of one collaborator (the lazy-definitions function, one
\* factory) in a run; a call that would go beyond it is not taken.
MaxCalls == 2

\* ------------------------------------------------------------ input universe
EagerNames == {"a", "b"}          \* keys the eager map may have
LazyNames == {"a", "b", "c"}      \* names lazily loaded definitions may have
Names == EagerNames \cup LazyNames
QueryNames == Names \cup {"zz"}   \* "zz" is never a definition's name
Vals == {"v1", "v2"}              \* the rest of a definition's content

\* An instance of definition_class: a name and content.  Python == on two
\* definitions is equality of these records.
Def(n, v) == [cls |-> "Def", name |-> n, v |-> v]
\* A value that is not an instance of definition_class (it has a name
\* attribute, so reading .name succeeds).
Junk == [cls |-> "Other", name |-> "c", v |-> "v1"]
NoDef == [cls |-> "None", name |-> "", v |-> ""]
\* Stands for a factory call that raises instead of returning.
Raises == [cls |-> "Raises", name |-> "", v |-> ""]

\* The name order sorted() uses (Python str comparison on these names).
NameRank(n) == CASE n = "a" -> 1 [] n = "b" -> 2 [] n = "c" -> 3 [] OTHER -> 4

\* An eager-map value under key k: an instance, or a zero-argument callable
\* (kind "fact") whose call returns `def`, or raises when `def` is Raises.
\* A callable does the same on every call.  Key "a" always
\* holds a plain instance; key "b" ranges over every kind of value.
EntriesFor(k) ==
    IF k = "a" THEN {[key |-> k, kind |-> "inst", def |-> Def(k, "v1")]}
    ELSE {[key |-> k, kind |-> "inst", def |-> Def(k, v)] : v \in Vals}
         \cup {[key |-> k, kind |-> "fact", def |-> d] :
                  d \in {Def(k, v) : v \in Vals}
                        \cup {Def("c", "v1"), Junk, Raises}}

\* Ordered mappings with distinct keys (a Python dict keeps insertion order).
EagerMaps ==
    {<<>>}
    \cup UNION {{<<e>> : e \in EntriesFor(k)} : k \in EagerNames}
    \cup UNION {{<<e1, e2>> : e1 \in EntriesFor(k1), e2 \in EntriesFor(k2)} :
                  <<k1, k2>> \in {p \in EagerNames \X EagerNames : p[1] # p[2]}}

\* An eager-map value that is neither an instance of definition_class nor
\* callable.
BadEntry(k) == [key |-> k, kind |-> "bad", def |-> Junk]

\* What a caller may pass as `definitions`: the mappings above, and mappings
\* with a value of the wrong kind under at least one key.
DefinitionsArgs ==
    EagerMaps
    \cup {<<BadEntry(k)>> : k \in EagerNames}
    \cup UNION {{<<e1, e2>> : e1 \in EntriesFor(k1) \cup {BadEntry(k1)},
                             e2 \in {BadEntry(k2)}}
                \cup {<<e1, e2>> : e1 \in {BadEntry(k1)}, e2 \in EntriesFor(k2)} :
                  <<k1, k2>> \in {p \in EagerNames \X EagerNames : p[1] # p[2]}}

\* What the lazy-definitions function may return items from.  Both eager keys
\* can also be lazily loaded names, together: Def("a", "v2") never equals
\* the eager map's value for "a", Def("b", "v1") equals the value for "b" or
\* not, depending on the eager map.
LazyItems ==
    {Def("a", "v2"), Def("b", "v1")} \cup {Def("c", v) : v \in Vals} \cup {Junk}
LazyBatches == UNION {[1..n -> LazyItems] : n \in 0..MaxLazy}
\* lazy_definitions_fn: a function that raises on every call, or one that
\* returns the same batch on every call (None, the default, is the function
\* returning the empty batch: line 66).
LazyFns ==
    {[raises |-> TRUE, batch |-> <<>>]}
    \cup {[raises |-> FALSE, batch |-> b] : b \in LazyBatches}

\* validation_fn: returns its argument, returns a changed definition, or
\* raises ("reject").  Content "v1" is always returned unchanged.
ValidationFns == {f \in [Vals -> Vals \cup {"reject"}] : f["v1"] = "v1"}

VARIABLES
    definitions,          \* self._definitions (constructor argument)
    validation_fn,        \* self._validation_fn
    lazy_definitions_fn,  \* self._lazy_definitions_fn
    definition_cache,     \* self._definition_cache : dict name -> definition
    definition_names,     \* self._definition_names : <<>> is None, <<s>> is s
    lazy_definitions,     \* self._lazy_definitions : <<>> is None, <<s>> is s
    all_definitions,      \* self._all_definitions  : <<>> is None, <<s>> is s
    lazy_calls,           \* history: invocations of the lazy-definitions fn
    factory_calls,        \* history: invocations of each key's factory
    validated,            \* history: arguments validation_fn returned for
    returned,             \* history: name -> the values get_definition(name)
                          \*          has returned (calls made by
                          \*          get_all_definitions included)
    last                  \* the call just made: op, arg, outcome, value, and
                          \* the collaborator calls it made, in order

vars == <<definitions, validation_fn, lazy_definitions_fn, definition_cache,
          definition_names, lazy_definitions, all_definitions, lazy_calls,
          factory_calls, validated, returned, last>>

\* ------------------------------------------------------------------ helpers
EagerKeys == {definitions[i].key : i \in DOMAIN definitions}
KeyList == [i \in DOMAIN definitions |-> definitions[i].key]
Source(k) == definitions[CHOOSE i \in DOMAIN definitions : definitions[i].key = k]
InSeq(x, s) == \E i \in DOMAIN s : s[i] = x

\* The mutable fields as one record, threaded through a call.
Cur ==
    [cache |-> definition_cache, names |-> definition_names,
     lazy |-> lazy_definitions, all |-> all_definitions,
     lcalls |-> lazy_calls, fcalls |-> factory_calls,
     valid |-> validated, ret |-> returned, trace |-> <<>>]

Return(st, val) == [st |-> st, err |-> "ok", val |-> val]
Raise(st, e) == [st |-> st, err |-> e, val |-> <<>>]
\* get_definition(name) returns val.
Resolved(st, name, val) ==
    Return([st EXCEPT !.ret[name] = @ \cup {val}], val)
Event(ev, key, d, ok) == [ev |-> ev, key |-> key, def |-> d, ok |-> ok]

\* self._validation_fn(definition): the returned definition, or NoDef when
\* it raises.
CallValidation(d) ==
    IF validation_fn[d.v] = "reject" THEN NoDef
    ELSE [d EXCEPT !.v = validation_fn[d.v]]

\* The statement  self._definition_cache[key] = self._validation_fn(d) :
\* the right-hand side is evaluated first; when it raises (out is NoDef)
\* nothing is stored.
Store(st, d, key, out) ==
    IF out = NoDef
    THEN Raise([st EXCEPT !.trace = Append(@, Event("valid", key, d, FALSE))],
               "ValidationError")
    ELSE Return([st EXCEPT !.cache = (key :> out) @@ @,
                           !.valid = @ \cup {d},
                           !.trace = Append(@, Event("valid", key, d, TRUE))],
                <<out>>)

StoreValidated(st, d, key) == Store(st, d, key, CallValidation(d))

\* A _validate_and_cache_definition without the name check.
_validate_and_cache_definition_no_name_check(st, d, key) ==
    IF d.cls # "Def" THEN Raise(st, "TypeMismatch")
    ELSE StoreValidated(st, d, key)

\* _validate_and_cache_definition(definition, definition_dict_key)
_validate_and_cache_definition(st, d, key) ==
    IF d.cls # "Def" THEN Raise(st, "TypeMismatch")
    ELSE IF d.name # key THEN Raise(st, "NameMismatch")
    ELSE StoreValidated(st, d, key)

\* The for loop of _get_lazy_definitions from index i on; ValidateNext
\* continues after item i, whose outcome is r.
RECURSIVE ValidateLazy(_, _, _)
RECURSIVE ValidateNext(_, _, _)
ValidateLazy(st, batch, i) ==
    IF i > Len(batch) THEN Return(st, batch)
    ELSE ValidateNext(_validate_and_cache_definition(st, batch[i], batch[i].name),
                      batch, i)
ValidateNext(r, batch, i) ==
    IF r.err # "ok" THEN r ELSE ValidateLazy(r.st, batch, i + 1)

\* The call self._lazy_definitions_fn() is recorded.
LazyFnInvoked(st) ==
    [st EXCEPT !.lcalls = @ + 1,
               !.trace = Append(@, Event("disc", "", NoDef,
                                         ~lazy_definitions_fn.raises))]

\* Lines 73-75: assign what the function returns, then validate and cache
\* each item.
LoadLazyDefinitions(st) ==
    IF lazy_definitions_fn.raises THEN Raise(LazyFnInvoked(st), "DiscoveryError")
    ELSE ValidateLazy([LazyFnInvoked(st) EXCEPT
                          !.lazy = <<lazy_definitions_fn.batch>>],
                      lazy_definitions_fn.batch, 1)

\* A _get_lazy_definitions that never looks at the memoised batch.
_get_lazy_definitions_unmemoized(st) == LoadLazyDefinitions(st)

\* _get_lazy_definitions()
_get_lazy_definitions(st) ==
    IF st.lazy = <<>> THEN LoadLazyDefinitions(st) ELSE Return(st, st.lazy[1])

\* A loop that appends every lazily loaded name and compares nothing.
RECURSIVE LazyNamesLoop_no_check(_, _, _, _)
LazyNamesLoop_no_check(st, batch, i, acc) ==
    IF i > Len(batch) THEN Return(st, acc)
    ELSE LazyNamesLoop_no_check(st, batch, i + 1, Append(acc, batch[i].name))

\* A loop that skips the equality check for names the eager map has.
RECURSIVE LazyNamesLoop_no_conflict(_, _, _, _)
LazyNamesLoop_no_conflict(st, batch, i, acc) ==
    IF i > Len(batch) THEN Return(st, acc)
    ELSE IF batch[i].name \in EagerKeys
         THEN LazyNamesLoop_no_conflict(st, batch, i + 1, acc)
         ELSE LazyNamesLoop_no_conflict(st, batch, i + 1, Append(acc, batch[i].name))

\* The for loop of get_definition_names from index i on; acc is lazy_names.
\* strict_definition == definition holds when the eager-map value is an
\* instance equal to the lazily loaded one (a callable equals no definition).
RECURSIVE LazyNamesLoop(_, _, _, _)
LazyNamesLoop(st, batch, i, acc) ==
    IF i > Len(batch) THEN Return(st, acc)
    ELSE IF batch[i].name \in EagerKeys
         THEN IF Source(batch[i].name).kind = "inst"
                 /\ Source(batch[i].name).def = batch[i]
              THEN LazyNamesLoop(st, batch, i + 1, acc)
              ELSE Raise(st, "DuplicateDefinition")
         ELSE LazyNamesLoop(st, batch, i + 1, Append(acc, batch[i].name))

\* Lines 94-95: memoise and return the keys followed by lazy_names (n).
MemoizeNames(n) ==
    IF n.err # "ok" THEN n
    ELSE Return([n.st EXCEPT !.names = <<KeyList \o n.val>>], KeyList \o n.val)

\* Lines 83-95, with the outcome l of self._get_lazy_definitions().
NamesFromLazy(l) ==
    IF l.err # "ok" THEN l ELSE MemoizeNames(LazyNamesLoop(l.st, l.val, 1, <<>>))

\* get_definition_names(): an empty memoised list is falsy and is recomputed.
get_definition_names(st) ==
    IF st.names # <<>> /\ Len(st.names[1]) > 0
    THEN Return(st, st.names[1])
    ELSE NamesFromLazy(_get_lazy_definitions(st))

\* A membership test that answers True for every name.
Contains_always(n, name) == IF n.err # "ok" THEN n ELSE Return(n.st, TRUE)

\* definition_name in n, the outcome of self.get_definition_names()
Contains(n, name) == IF n.err # "ok" THEN n ELSE Return(n.st, InSeq(name, n.val))

\* A has_definition that looks the name up in the eager map only.
has_definition_in_eager_map(st, name) == Return(st, name \in EagerKeys)

\* has_definition(definition_name)
has_definition(st, name) == Contains(get_definition_names(st), name)

\* A cache test that ignores the entries of eager-map keys.
IsCached_lazy_only(st, name) == name \in DOMAIN st.cache /\ name \notin EagerKeys

\* definition_name in self._definition_cache
IsCached(st, name) == name \in DOMAIN st.cache

\* Lines 118-130: raise with the names n = self.get_definition_names() in
\* the message.
NotFound(n) ==
    IF n.err # "ok" THEN n ELSE [st |-> n.st, err |-> "NotFound", val |-> n.val]

\* Lines 139 and 143: return d once r, the validate-and-cache step, is done.
ReturnIfStored(r, name, d) ==
    IF r.err # "ok" THEN r ELSE Resolved(r.st, name, d)

\* Lines 141-143: call the factory, validate and cache what it returns, and
\* return what it returned.
CallFactory(st, name, src) ==
    IF src.def = Raises
    THEN Raise([st EXCEPT !.fcalls[name] = @ + 1,
                          !.trace = Append(@, Event("fact", name, NoDef, FALSE))],
               "FactoryError")
    ELSE ReturnIfStored(
             _validate_and_cache_definition(
                 [st EXCEPT !.fcalls[name] = @ + 1,
                            !.trace = Append(@, Event("fact", name, NoDef, TRUE))],
                 src.def, name),
             name, src.def)

\* A resolution that hands out what it cached for an instance.
FromSource_returns_cached(st, name, src) ==
    IF src.kind = "inst"
    THEN ReturnIfStored(StoreValidated(st, src.def, name), name,
                        CallValidation(src.def))
    ELSE CallFactory(st, name, src)

\* Lines 137-143: the eager-map value src is an instance or a callable.
FromSource(st, name, src) ==
    IF src.kind = "inst"
    THEN ReturnIfStored(StoreValidated(st, src.def, name), name, src.def)
    ELSE CallFactory(st, name, src)

\* Lines 117-143, with the outcome h of self.has_definition(definition_name).
GetKnown(h, name) ==
    IF h.err # "ok" THEN h
    ELSE IF ~h.val THEN NotFound(get_definition_names(h.st))
    ELSE IF IsCached(h.st, name) THEN Resolved(h.st, name, h.st.cache[name])
    ELSE IF name \notin EagerKeys THEN Raise(h.st, "KeyError")
    ELSE FromSource(h.st, name, Source(name))

\* get_definition(definition_name)
get_definition(st, name) == GetKnown(has_definition(st, name), name)

\* sorted(..., key=lambda definition: definition.name): a stable sort.
RECURSIVE SortedInsert(_, _)
SortedInsert(s, d) ==
    IF s = <<>> THEN <<d>>
    ELSE IF NameRank(s[Len(s)].name) <= NameRank(d.name) THEN Append(s, d)
    ELSE Append(SortedInsert(SubSeq(s, 1, Len(s) - 1), d), s[Len(s)])

\* No sort at all.
SortedByName_unsorted(s) == s

RECURSIVE SortedByName(_)
SortedByName(s) ==
    IF s = <<>> THEN <<>>
    ELSE SortedInsert(SortedByName(SubSeq(s, 1, Len(s) - 1)), s[Len(s)])

\* map(self.get_definition, names) from index i on; acc holds the results.
\* MapNext continues after names[i], whose outcome is r.
RECURSIVE MapGetDefinition(_, _, _, _)
RECURSIVE MapNext(_, _, _, _)
MapGetDefinition(st, names, i, acc) ==
    IF i > Len(names) THEN Return(st, acc)
    ELSE MapNext(get_definition(st, names[i]), names, i, acc)
MapNext(r, names, i, acc) ==
    IF r.err # "ok" THEN Raise(r.st, r.err)
    ELSE MapGetDefinition(r.st, names, i + 1, Append(acc, r.val))

\* Lines 106-112: sort the mapped definitions m, memoise and return them.
SortAndMemoize(m) ==
    IF m.err # "ok" THEN m
    ELSE Return([m.st EXCEPT !.all = <<SortedByName(m.val)>>], SortedByName(m.val))

\* Lines 106-112, with the outcome n of self.get_definition_names().
AllOf(n) ==
    IF n.err # "ok" THEN n
    ELSE SortAndMemoize(MapGetDefinition(n.st, n.val, 1, <<>>))

\* get_all_definitions()
get_all_definitions(st) ==
    IF st.all # <<>> THEN Return(st, st.all[1])
    ELSE AllOf(get_definition_names(st))

\* --------------------------------------------------------------- construction
\* The fields as lines 51-69 set them; no collaborator has been called.
Fresh ==
    [cache |-> <<>>, names |-> <<>>, lazy |-> <<>>, all |-> <<>>,
     lcalls |-> 0, fcalls |-> [k \in EagerNames |-> 0],
     valid |-> {}, ret |-> [n \in Names |-> {}], trace |-> <<>>]

\* The for loop of lines 39-49 from index i on: the key of the first value
\* that is neither an instance of definition_class nor callable, "" if none.
RECURSIVE CheckDefinitions(_, _)
CheckDefinitions(defs, i) ==
    IF i > Len(defs) THEN ""
    ELSE IF defs[i].kind = "bad" THEN defs[i].key
    ELSE CheckDefinitions(defs, i + 1)

\* A constructor without the check of lines 39-49.
__init___no_check(defs) == Return(Fresh, "")

\* __init__(...): check.invariant raises for the first bad value, before any
\* field is assigned; otherwise the fields are set.  val is the key named in
\* the error.
__init__(defs) ==
    IF CheckDefinitions(defs, 1) # ""
    THEN [st |-> Fresh, err |-> "TypeMismatch", val |-> CheckDefinitions(defs, 1)]
    ELSE Return(Fresh, "")

\* ------------------------------------------------------------------ actions
\* The outcome of __init__ for one choice of its arguments.  When it
\* raises there is no index, and no method can be called.
Init ==
    /\ definitions \in DefinitionsArgs
    /\ validation_fn \in ValidationFns
    /\ lazy_definitions_fn \in LazyFns
    /\ definition_cache = __init__(definitions).st.cache
    /\ definition_names = __init__(definitions).st.names
    /\ lazy_definitions = __init__(definitions).st.lazy
    /\ all_definitions = __init__(definitions).st.all
    /\ lazy_calls = __init__(definitions).st.lcalls
    /\ factory_calls = __init__(definitions).st.fcalls
    /\ validated = __init__(definitions).st.valid
    /\ returned = __init__(definitions).st.ret
    /\ last = [op |-> "init", arg |-> __init__(definitions).val,
               err |-> __init__(definitions).err, val |-> <<>>,
               trace |-> __init__(definitions).st.trace]

\* Commit the outcome r of call op(arg).
Finish(op, arg, r) ==
    /\ __init__(definitions).err = "ok"
    /\ r.st.lcalls <= MaxCalls
    /\ \A k \in EagerNames : r.st.fcalls[k] <= MaxCalls
    /\ definition_cache' = r.st.cache
    /\ definition_names' = r.st.names
    /\ lazy_definitions' = r.st.lazy
    /\ all_definitions' = r.st.all
    /\ lazy_calls' = r.st.lcalls
    /\ factory_calls' = r.st.fcalls
    /\ validated' = r.st.valid
    /\ returned' = r.st.ret
    /\ last' = [op |-> op, arg |-> arg, err |-> r.err, val |-> r.val,
                trace |-> r.st.trace]
    /\ UNCHANGED <<definitions, validation_fn, lazy_definitions_fn>>

GetDefinitionNames ==
    Finish("get_definition_names", "", get_definition_names(Cur))

HasDefinition ==
    \E name \in QueryNames :
        Finish("has_definition", name, has_definition(Cur, name))

GetDefinition ==
    \E name \in QueryNames :
        Finish("get_definition", name, get_definition(Cur, name))

GetAllDefinitions ==
    Finish("get_all_definitions", "", get_all_definitions(Cur))

Next == GetDefinitionNames \/ HasDefinition \/ GetDefinition \/ GetAllDefinitions

Spec == Init /\ [][Next]_vars

\* ------------------------------------------------------- what a call did
\* The lazy-definitions function was invoked in the call.
DiscoveryInvoked(call) == \E i \in DOMAIN call.trace : call.trace[i].ev = "disc"
\* ... and returned.
DiscoveryReturned(call) ==
    \E i \in DOMAIN call.trace : call.trace[i].ev = "disc" /\ call.trace[i].ok
\* The factory under key k was invoked in the call.
FactoryInvoked(call, k) ==
    \E i \in DOMAIN call.trace : call.trace[i].ev = "fact" /\ call.trace[i].key = k
\* validation_fn was called in the call.
ValidationInvoked(call) == \E i \in DOMAIN call.trace : call.trace[i].ev = "valid"
Failed(call) == call.op # "init" /\ call.err # "ok"
Succeeded(call) == call.op # "init" /\ call.err = "ok"
IsFactory(k) == k \in EagerKeys /\ Source(k).kind = "fact"
IsInstance(k) == k \in EagerKeys /\ Source(k).kind = "inst"

\* ------------------------------------------------------------------ C1
\* C1 as stated: the lazy-definitions function is invoked at most once over
\* any sequence of calls, failed calls included.
C1_DiscoveryInvokedAtMostOnce == lazy_calls <= 1

\* C1 as amended: the function RETURNS at most once.  An invocation that
\* returns sets _lazy_definitions in the same call, whatever happens later in
\* that call; once _lazy_definitions is set it never changes and no call
\* invokes the function again.  (An invocation that raises leaves it unset.)
C1_DiscoveryReturnsAtMostOnce ==
    [][/\ DiscoveryReturned(last')
          => lazy_definitions = <<>> /\ lazy_definitions' # <<>>
       /\ lazy_definitions # <<>>
          => /\ lazy_definitions' = lazy_definitions
             /\ lazy_calls' = lazy_calls
             /\ ~DiscoveryInvoked(last')]_vars

\* A call that failed after the function had returned in an earlier call and
\* did not invoke it again.
C1_Witness ==
    /\ lazy_definitions # <<>>
    /\ lazy_calls = 1
    /\ Failed(last)
    /\ ~DiscoveryInvoked(last)

\* ------------------------------------------------------------------ C2
\* C2 as stated: every factory is invoked at most once over any sequence of
\* get_definition and get_all_definitions calls, failed calls included.
C2_FactoryInvokedAtMostOnce == \A k \in EagerNames : factory_calls[k] <= 1

\* C2 as amended: a factory is invoked only while the cache has no entry for
\* its key, at most once per call, and a call that invokes it and succeeds
\* leaves the key cached; so after one successful resolution the factory is
\* never invoked again.  (A failed invocation caches nothing.)
C2_FactoryNotInvokedOnceCached ==
    [][\A k \in EagerNames :
         /\ factory_calls'[k] # factory_calls[k]
            => /\ k \notin DOMAIN definition_cache
               /\ factory_calls'[k] = factory_calls[k] + 1
               /\ FactoryInvoked(last', k)
               /\ last'.err = "ok" => k \in DOMAIN definition_cache'
         /\ k \in DOMAIN definition_cache => k \in DOMAIN definition_cache']_vars

\* A second successful get_definition of a factory's key that did not invoke
\* the factory again.
C2_Witness ==
    /\ IsFactory("b")
    /\ factory_calls["b"] = 1
    /\ last.op = "get_definition" /\ last.arg = "b" /\ last.err = "ok"
    /\ ~FactoryInvoked(last, "b")

\* ------------------------------------------------------------------ C3
\* C3: all successful get_definition(n) calls on one index return the same
\* value (`returned` collects the values returned for each name).
C3_ResolveReturnsOneValue == \A n \in Names : Cardinality(returned[n]) <= 1

\* ------------------------------------------------------------------ C4
\* C4: a get_definition_names / has_definition call that starts the
\* discovery and fails leaves the index as it was before the call:
\* _lazy_definitions and _definition_names still None, the cache unchanged.
C4_FailedMaterializationLeavesNoTrace ==
    [][(/\ last'.op \in {"get_definition_names", "has_definition"}
        /\ DiscoveryInvoked(last')
        /\ last'.err # "ok")
       => /\ lazy_definitions' = <<>>
          /\ definition_names' = <<>>
          /\ definition_cache' = definition_cache]_vars

\* ------------------------------------------------------------------ C5
\* What the lazy-definitions function returns, and whether each of its items
\* passes _validate_and_cache_definition.
Batch == lazy_definitions_fn.batch
BatchNames == [i \in DOMAIN Batch |-> Batch[i].name]
BatchValid ==
    /\ ~lazy_definitions_fn.raises
    /\ \A i \in DOMAIN Batch :
         Batch[i].cls = "Def" /\ validation_fn[Batch[i].v] # "reject"
\* k is an eager-map key and the name of a lazily loaded definition.
InBoth(k) == k \in EagerKeys /\ \E i \in DOMAIN Batch : Batch[i].name = k
\* ... and the two representations are equal (strict_definition == definition).
EqualInBoth(k) ==
    /\ InBoth(k)
    /\ IsInstance(k)
    /\ \A i \in DOMAIN Batch : Batch[i].name = k => Batch[i] = Source(k).def
ConflictInBoth(k) == InBoth(k) /\ ~EqualInBoth(k)
Count(x, s) == Cardinality({i \in DOMAIN s : s[i] = x})
\* k is listed once, where the eager map has it.
ListedOnceAtEagerPosition(k, names) ==
    /\ Count(k, names) = 1
    /\ \E i \in DOMAIN KeyList : KeyList[i] = k /\ names[i] = k

AnyConflict == \E k \in EagerNames : ConflictInBoth(k)

PassedValidation(x, accepted) ==
    x \in accepted \/ \E d \in accepted : x = CallValidation(d)

\* C6: every definition get_definition or get_all_definitions returns has
\* passed validation_fn; and when validation_fn raises, the call fails with
\* that error and the cache gains no entry for the name being validated.
C6_ValidatedBeforeHandedOut ==
    [][/\ (last'.op = "get_definition" /\ last'.err = "ok")
          => PassedValidation(last'.val, validated')
       /\ (last'.op = "get_all_definitions" /\ last'.err = "ok")
          => \A i \in DOMAIN last'.val : PassedValidation(last'.val[i], validated')
       /\ \A i \in DOMAIN last'.trace :
            (last'.trace[i].ev = "valid" /\ ~last'.trace[i].ok)
            => /\ last'.err = "ValidationError"
               /\ last'.trace[i].key \in DOMAIN definition_cache'
                  => /\ last'.trace[i].key \in DOMAIN definition_cache
                     /\ definition_cache'[last'.trace[i].key]
                          = definition_cache[last'.trace[i].key]]_vars

\* ------------------------------------------------------------------ C7
\* The eager-map keys in their order, then the lazily loaded names that are
\* not eager-map keys, in the order the function returned them.
ExpectedNames == KeyList \o SelectSeq(BatchNames, LAMBDA n : n \notin EagerKeys)

\* C7: every successful get_definition_names returns ExpectedNames (the keys
\* alone when the batch is empty), and the memoised list is that sequence.
C7_NamesInOrder ==
    /\ (last.op = "get_definition_names" /\ last.err = "ok")
       => /\ last.val = ExpectedNames
          /\ Batch = <<>> => last.val = KeyList
          /\ definition_names = <<last.val>>
    /\ definition_names # <<>> => definition_names[1] = ExpectedNames

\* A later call returns keys b, a (in map order) and then the lazy-only c,
\* the batch also holding a name the eager map has.
C7_Witness ==
    /\ last.op = "get_definition_names" /\ last.err = "ok"
    /\ ~DiscoveryInvoked(last)
    /\ last.val = <<"b", "a", "c">>
    /\ Len(Batch) = 2
    /\ InBoth("b")

\* ------------------------------------------------------------------ C8
\* The call just made was get_definition(key), it invoked key's factory and
\* the factory returned a definition named otherwise.
MisnamedFactoryResult(call) ==
    /\ call.op = "get_definition"
    /\ FactoryInvoked(call, call.arg)
    /\ Source(call.arg).def.cls = "Def"
    /\ Source(call.arg).def.name # call.arg

\* C8 as stated: such a call fails with the name-mismatch error and leaves
\* the cache exactly as it was.
C8_NameMismatchAsStated ==
    [][MisnamedFactoryResult(last')
       => /\ last'.err = "NameMismatch"
          /\ definition_cache' = definition_cache]_vars

\* C8 as amended: such a call fails with the name-mismatch error, the cache
\* has no entry for the key afterwards and no existing entry changes; the
\* only entries the call can add are those of lazily loaded definitions,
\* written when this call is the one that runs the discovery.
C8_NameMismatch ==
    [][MisnamedFactoryResult(last')
       => /\ last'.err = "NameMismatch"
          /\ last'.arg \notin DOMAIN definition_cache'
          /\ \A n \in DOMAIN definition_cache :
               n \in DOMAIN definition_cache'
               /\ definition_cache'[n] = definition_cache[n]
          /\ \A n \in DOMAIN definition_cache' \ DOMAIN definition_cache :
               /\ DiscoveryInvoked(last')
               /\ \E i \in DOMAIN Batch :
                    Batch[i].name = n
                    /\ definition_cache'[n] = CallValidation(Batch[i])]_vars

\* Such a call, made after the discovery had run in an earlier call.
C8_Witness ==
    /\ MisnamedFactoryResult(last)
    /\ last.err = "NameMismatch"
    /\ ~DiscoveryInvoked(last)
    /\ definition_cache # <<>>

\* ------------------------------------------------------------------ C9
\* C9: get_definition of a name that is not in the name list fails with
\* NotFound; the names in the error are the name list, in order; no factory
\* is invoked; the cache gets no entry for the name, keeps its entries and
\* gains only those of lazily loaded definitions, when the call runs the
\* discovery.
C9_NotFound ==
    [][last'.op = "get_definition"
       => /\ (definition_names' # <<>> /\ ~InSeq(last'.arg, definition_names'[1]))
             => last'.err = "NotFound"
          /\ last'.err = "NotFound"
             => /\ ~InSeq(last'.arg, last'.val)
                /\ last'.val = ExpectedNames
                /\ definition_names' = <<last'.val>>
                /\ \A k \in EagerNames : ~FactoryInvoked(last', k)
                /\ factory_calls' = factory_calls
                /\ last'.arg \notin DOMAIN definition_cache'
                /\ \A n \in DOMAIN definition_cache :
                     n \in DOMAIN definition_cache'
                     /\ definition_cache'[n] = definition_cache[n]
                /\ \A n \in DOMAIN definition_cache' \ DOMAIN definition_cache :
                     /\ DiscoveryInvoked(last')
                     /\ \E i \in DOMAIN Batch : Batch[i].name = n]_vars

\* The first call on an index is get_definition("zz"): it runs the discovery,
\* caches the lazily loaded definition and fails listing three names.
C9_Witness ==
    /\ last.op = "get_definition" /\ last.arg = "zz" /\ last.err = "NotFound"
    /\ DiscoveryInvoked(last)
    /\ Len(last.val) = 3
    /\ "c" \in DOMAIN definition_cache

\* ------------------------------------------------------------------ C10
NamesOf(s) == [i \in DOMAIN s |-> s[i].name]
IsSortedByName(s) ==
    \A i \in 1..(Len(s) - 1) : NameRank(s[i].name) <= NameRank(s[i + 1].name)

\* C10: a successful get_all_definitions returns one definition per element
\* of the name list, in ascending name order, and memoises it; once memoised
\* every get_all_definitions returns that sequence and calls neither the
\* lazy-definitions function nor a factory nor validation_fn.
C10_AllSortedAndMemoized ==
    [][/\ (last'.op = "get_all_definitions" /\ last'.err = "ok")
          => /\ definition_names' # <<>>
             /\ Len(last'.val) = Len(definition_names'[1])
             /\ \A n \in Names :
                  Count(n, NamesOf(last'.val)) = Count(n, definition_names'[1])
             /\ IsSortedByName(last'.val)
             /\ all_definitions' = <<last'.val>>
       /\ all_definitions # <<>>
          => /\ all_definitions' = all_definitions
             /\ last'.op = "get_all_definitions"
                => /\ last'.err = "ok"
                   /\ last'.val = all_definitions[1]
                   /\ last'.trace = <<>>
                   /\ lazy_calls' = lazy_calls
                   /\ factory_calls' = factory_calls
                   /\ validated' = validated]_vars

\* A second get_all_definitions on an index whose eager map is ordered b, a
\* and whose lazy batch adds c: three definitions, no collaborator called.
C10_Witness ==
    /\ last.op = "get_all_definitions" /\ last.err = "ok"
    /\ last.trace = <<>>
    /\ KeyList = <<"b", "a">>
    /\ NamesOf(last.val) = <<"a", "b", "c">>

\* ------------------------------------------------------------------ C11
\* How many times the call stored an entry under name n (every validation
\* that returned was followed by the store of line 138 or 168).
CacheWrites(call, n) ==
    Cardinality({i \in DOMAIN call.trace :
                    /\ call.trace[i].ev = "valid"
                    /\ call.trace[i].ok
                    /\ call.trace[i].key = n})

\* C11: the cache is append-only and each name is written at most once: a
\* call never removes or changes an entry, never stores under a name that
\* already has an entry, and stores under one name at most once.
C11_CacheAppendOnlyWrittenOnce ==
    [][\A n \in Names :
         /\ n \in DOMAIN definition_cache
            => /\ n \in DOMAIN definition_cache'
               /\ definition_cache'[n] = definition_cache[n]
               /\ CacheWrites(last', n) = 0
         /\ CacheWrites(last', n) <= 1]_vars

\* ------------------------------------------------------------------ C12
\* C12: a failing call aborts only itself.  After a call that fails, every
\* cache entry that existed before the call is still there with the same
\* value, and every name get_definition had returned a definition for before
\* the call still resolves afterwards, to the value it had returned
\* (`returned` holds the values returned so far).
C12_FailureAbortsOnlyItself ==
    [][Failed(last')
       => /\ \A n \in DOMAIN definition_cache :
               /\ n \in DOMAIN definition_cache'
               /\ definition_cache'[n] = definition_cache[n]
          /\ \A n \in Names :
               returned[n] # {}
               => /\ get_definition(Cur', n).err = "ok"
                  /\ returned[n] = {get_definition(Cur', n).val}]_vars

\* ------------------------------------------------------------------ C13
\* Some eager-map value is neither an instance nor callable; the first such
\* key in the mapping's order.
HasBadValue == \E i \in DOMAIN definitions : definitions[i].kind = "bad"
IsFirstBadKey(k) ==
    \E i \in DOMAIN definitions :
        /\ definitions[i].kind = "bad"
        /\ definitions[i].key = k
        /\ \A j \in 1..(i - 1) : definitions[j].kind # "bad"

\* C13: construction fails with TypeMismatch, naming the key, exactly when a
\* value of the eager map is neither an instance nor callable; it checks
\* nothing else (a factory that raises or returns a wrong or misnamed value,
\* any lazy-definitions function and any validation_fn are accepted); it
\* calls no factory, nor the lazy-definitions function, nor validation_fn;
\* and on success the cache is empty and the three memoised fields are None.
C13_Construction ==
    last.op = "init"
    => /\ HasBadValue => last.err = "TypeMismatch" /\ IsFirstBadKey(last.arg)
       /\ ~HasBadValue => last.err = "ok"
       /\ lazy_calls = 0
       /\ \A k \in EagerNames : factory_calls[k] = 0
       /\ validated = {}
       /\ last.trace = <<>>
       /\ last.err = "ok"
          => /\ definition_cache = <<>>
             /\ definition_names = <<>>
             /\ lazy_definitions = <<>>
             /\ all_definitions = <<>>

\* Construction fails for the second key of a map whose first value is a
\* factory.
C13_Witness ==
    /\ last.op = "init"
    /\ last.err = "TypeMismatch"
    /\ Len(definitions) = 2
    /\ definitions[1].kind = "fact"
    /\ last.arg = definitions[2].key

\* ------------------------------------------------------------------ C14
\* C14: whenever the name list is memoised, every name in it that is not an
\* eager-map key has a cache entry, so no call reaches the eager-map lookup
\* of line 135 with a name the eager map lacks (a KeyError).
C14_LazyOnlyNamesCached ==
    /\ definition_names # <<>>
       => \A i \in DOMAIN definition_names[1] :
            definition_names[1][i] \notin EagerKeys
            => definition_names[1][i] \in DOMAIN definition_cache
    /\ last.err # "KeyError"

\* ------------------------------------------------------------------ C15
\* get_definition(name) will find no cache entry at line 132 and the
\* eager-map value is an instance: name is not cached, and the discovery has
\* run already or will not cache it.
UncachedInstance(name) ==
    /\ IsInstance(name)
    /\ name \notin DOMAIN definition_cache
    /\ lazy_definitions # <<>> \/ ~InBoth(name)

\* C15: such a get_definition(name), when it succeeds, has passed the instance
\* e to validation_fn, stored validation_fn's result under name and returned
\* e itself; when validation_fn raises for e the call fails and stores
\* nothing under name.
C15_InstanceReturnedValidationCached ==
    [][\A name \in Names :
         (last'.op = "get_definition" /\ last'.arg = name /\ UncachedInstance(name))
         => /\ last'.err = "ok"
               => /\ last'.val = Source(name).def
                  /\ name \in DOMAIN definition_cache'
                  /\ definition_cache'[name] = CallValidation(Source(name).def)
                  /\ \E i \in DOMAIN last'.trace :
                       last'.trace[i] = Event("valid", name, Source(name).def, TRUE)
            /\ CallValidation(Source(name).def) = NoDef
               => last'.err # "ok" /\ name \notin DOMAIN definition_cache']_vars

\* A get_definition that returned the instance of the eager map while the
\* cache holds the different definition validation_fn returned.
C15_Witness ==
    /\ last.op = "get_definition" /\ last.err = "ok"
    /\ IsInstance(last.arg)
    /\ last.val = Source(last.arg).def
    /\ definition_cache[last.arg] # last.val

\* ------------------------------------------------------------------ C16
\* C16: a get_definition(name) that invokes name's factory and succeeds
\* returns the validated definition: what validation_fn returned for the
\* factory's product, which is the entry stored under name.
C16_FactoryResolveReturnsValidated ==
    [][(/\ last'.op = "get_definition"
        /\ last'.err = "ok"
        /\ FactoryInvoked(last', last'.arg))
       => /\ last'.arg \in DOMAIN definition_cache'
          /\ definition_cache'[last'.arg] = CallValidation(Source(last'.arg).def)
          /\ last'.val = definition_cache'[last'.arg]]_vars

\* ------------------------------------------------------------------ C17
\* The definitions the lazy-definitions function returns.
BatchItems == {Batch[i] : i \in DOMAIN Batch}
\* k is an eager-map key that no lazily loaded definition is named.
EagerOnly(k) == k \in EagerKeys /\ ~InBoth(k)

\* C17: has_definition(name) answers whether name is in the list
\* get_definition_names returns (and fails when that fails, leaving the same
\* state); neither call invokes a factory or validates a value of the eager
\* map: validation_fn is called only for lazily loaded definitions, under
\* their own names, and the cache gains entries for those names only; so an
\* eager-only name has a cache entry only once get_definition has returned
\* a definition for it.
C17_NamesAndHasAgreeAndResolveNothing ==
    /\ LET n == get_definition_names(Cur)
       IN  \A name \in QueryNames :
             LET h == has_definition(Cur, name)
             IN  /\ h.err = n.err
                 /\ h.st = n.st
                 /\ h.err = "ok" => h.val = InSeq(name, n.val)
    /\ (last.op = "has_definition" /\ last.err = "ok")
       => /\ definition_names # <<>>
          /\ last.val = InSeq(last.arg, definition_names[1])
    /\ last.op \in {"get_definition_names", "has_definition"}
       => /\ \A k \in EagerNames : ~FactoryInvoked(last, k)
          /\ \A i \in DOMAIN last.trace :
               last.trace[i].ev = "valid"
               => /\ last.trace[i].def \in BatchItems
                  /\ last.trace[i].key = last.trace[i].def.name
    /\ \A k \in EagerNames :
         (EagerOnly(k) /\ returned[k] = {}) => k \notin DOMAIN definition_cache

\* has_definition("c") answered True on a fresh index: the lazily loaded c
\* is cached, the eager instance a and the factory under b are not.
C17_Witness ==
    /\ last.op = "has_definition" /\ last.arg = "c"
    /\ last.err = "ok" /\ last.val = TRUE
    /\ DiscoveryInvoked(last)
    /\ IsInstance("a") /\ IsFactory("b")
    /\ DOMAIN definition_cache = {"c"}

\* ------------------------------------------------------------------ C18
\* C18: what a successful get_all_definitions returns does not depend on
\* the calls made before it: it is what get_all_definitions returns as the
\* first call on an index constructed from the same arguments; and
\* get_definition of each returned definition's name afterwards returns
\* that definition.
C18_GetAllIndependentOfHistory ==
    (last.op = "get_all_definitions" /\ last.err = "ok")
    => /\ get_all_definitions(Fresh).err = "ok"
       /\ last.val = get_all_definitions(Fresh).val
       /\ \A i \in DOMAIN last.val :
            /\ get_definition(Cur, last.val[i].name).err = "ok"
            /\ get_definition(Cur, last.val[i].name).val = last.val[i]

\* ------------------------------------------------------------------ C19
\* No element occurs twice in s.
NoRepeats(s) == \A i, j \in DOMAIN s : s[i] = s[j] => i = j

\* C19: the memoised name list never holds a name twice, and what
\* get_all_definitions returns never holds two definitions of one name.
C19_NamesUnique ==
    /\ definition_names # <<>> => NoRepeats(definition_names[1])
    /\ all_definitions # <<>> => NoRepeats(NamesOf(all_definitions[1]))
    /\ (last.op = "get_all_definitions" /\ last.err = "ok")
       => NoRepeats(NamesOf(last.val))

====
